---- MODULE Spec2Model ----
(***************************************************************************)
(* A model of the two acquisition programs of the repository:              *)
(*   realtime_plot.py  ArduinoReader: a serial line source, a bounded      *)
(*                     buffer (times/values) and a FuncAnimation tick      *)
(*                     (update_plot) that drains the port and rescales.    *)
(*   video_reader.py   VideoReader: a camera capture loop that reduces a   *)
(*                     frame to one scalar (calculate_ppg) into a bounded  *)
(*                     buffer (ppg_times/ppg_values) and a plot tick.      *)
(*                                                                         *)
(* Units.  time.time() is read in ticks of 1/TicksPerSecond second, so the *)
(* margins 0.5 s and 0.1 s are whole numbers of ticks.  y-limits are kept  *)
(* as numerators over YScale (18), so y_range/1.8 = 10*y_range/18 is exact.*)
(* A rate is kept as the unevaluated quotient num/den (in samples per      *)
(* tick); the title shows it in Hz, rounded to one decimal.                *)
(***************************************************************************)
EXTENDS Integers, Sequences, FiniteSets, TLC

(***************************************************************************)
(* Bounds of the model.                                                    *)
(***************************************************************************)
\* self.max_points is 1000 (realtime_plot.py:13) and 500 (video_reader.py:23)
\* in the source; the model runs the same code with these capacities.
SerialMaxPoints == 11
CameraMaxPoints == 11
\* how many times the clock may advance in one run
MaxAdvances == 1
\* how many lines the serial input buffer holds before the device waits
MaxInWaiting == 2
\* time.time() when the program starts, in ticks
Epoch == 3
\* how many times the caller calls close() again after start() has returned
MaxExplicitCloses == 1

(***************************************************************************)
(* Program constants, in the model's units.                                *)
(***************************************************************************)
TicksPerSecond == 10
YScale == 18
\* self.time_window = 10, self.window_size = 10 (seconds)
time_window == 10 * TicksPerSecond
window_size == 10 * TicksPerSecond
\* current_time + 0.5, current_time + 0.1
SerialMargin == 5
CameraMargin == 1
\* if len(self.values) > 5, if len(self.times) > 10
MinYCount == 5
MinRateCount == 10
\* y_range = max(50, ...), min - 10 / max + 10, set_ylim(0, 100)
MinYRange == 50
CameraYPad == 10
InitialYMax == 100
\* the longest literal int() converts (sys.int_max_str_digits)
IntMaxStrDigits == 4300

None == "None"
\* self.start_time = None (the clock is never negative)
NoTime == 0 - 1

(***************************************************************************)
(* Pure helpers: Python built-ins the handlers use.                        *)
(***************************************************************************)
Max2(a, b) == IF a >= b THEN a ELSE b

RECURSIVE SeqMin(_)
SeqMin(s) == IF Len(s) = 1 THEN s[1]
             ELSE LET m == SeqMin(Tail(s)) IN IF s[1] <= m THEN s[1] ELSE m

RECURSIVE SeqMax(_)
SeqMax(s) == IF Len(s) = 1 THEN s[1]
             ELSE LET m == SeqMax(Tail(s)) IN IF s[1] >= m THEN s[1] ELSE m

\* list.pop(0)
Pop0(s) == Tail(s)

(***************************************************************************)
(* A serial line is the sequence of its characters, without the newline.   *)
(* BadByte stands for a byte that is not valid UTF-8.                      *)
(***************************************************************************)
BadByte == "xFF"
\* a character is written as itself when it is printable ASCII, as "\t",
\* "\n", "\f", "\r" or as "U+XXXX" (its code point) otherwise
DigitChars == <<"0", "1", "2", "3", "4", "5", "6", "7", "8", "9">>
\* the other decimal digits of Unicode (category Nd), zero to nine block by
\* block: int() takes them as it takes "0".."9"
UnicodeDigits ==
    <<
       <<"U+0660", "U+0661", "U+0662", "U+0663", "U+0664",
         "U+0665", "U+0666", "U+0667", "U+0668", "U+0669">>,
       <<"U+06F0", "U+06F1", "U+06F2", "U+06F3", "U+06F4",
         "U+06F5", "U+06F6", "U+06F7", "U+06F8", "U+06F9">>,
       <<"U+07C0", "U+07C1", "U+07C2", "U+07C3", "U+07C4",
         "U+07C5", "U+07C6", "U+07C7", "U+07C8", "U+07C9">>,
       <<"U+0966", "U+0967", "U+0968", "U+0969", "U+096A",
         "U+096B", "U+096C", "U+096D", "U+096E", "U+096F">>,
       <<"U+09E6", "U+09E7", "U+09E8", "U+09E9", "U+09EA",
         "U+09EB", "U+09EC", "U+09ED", "U+09EE", "U+09EF">>,
       <<"U+0A66", "U+0A67", "U+0A68", "U+0A69", "U+0A6A",
         "U+0A6B", "U+0A6C", "U+0A6D", "U+0A6E", "U+0A6F">>,
       <<"U+0AE6", "U+0AE7", "U+0AE8", "U+0AE9", "U+0AEA",
         "U+0AEB", "U+0AEC", "U+0AED", "U+0AEE", "U+0AEF">>,
       <<"U+0B66", "U+0B67", "U+0B68", "U+0B69", "U+0B6A",
         "U+0B6B", "U+0B6C", "U+0B6D", "U+0B6E", "U+0B6F">>,
       <<"U+0BE6", "U+0BE7", "U+0BE8", "U+0BE9", "U+0BEA",
         "U+0BEB", "U+0BEC", "U+0BED", "U+0BEE", "U+0BEF">>,
       <<"U+0C66", "U+0C67", "U+0C68", "U+0C69", "U+0C6A",
         "U+0C6B", "U+0C6C", "U+0C6D", "U+0C6E", "U+0C6F">>,
       <<"U+0CE6", "U+0CE7", "U+0CE8", "U+0CE9", "U+0CEA",
         "U+0CEB", "U+0CEC", "U+0CED", "U+0CEE", "U+0CEF">>,
       <<"U+0D66", "U+0D67", "U+0D68", "U+0D69", "U+0D6A",
         "U+0D6B", "U+0D6C", "U+0D6D", "U+0D6E", "U+0D6F">>,
       <<"U+0DE6", "U+0DE7", "U+0DE8", "U+0DE9", "U+0DEA",
         "U+0DEB", "U+0DEC", "U+0DED", "U+0DEE", "U+0DEF">>,
       <<"U+0E50", "U+0E51", "U+0E52", "U+0E53", "U+0E54",
         "U+0E55", "U+0E56", "U+0E57", "U+0E58", "U+0E59">>,
       <<"U+0ED0", "U+0ED1", "U+0ED2", "U+0ED3", "U+0ED4",
         "U+0ED5", "U+0ED6", "U+0ED7", "U+0ED8", "U+0ED9">>,
       <<"U+0F20", "U+0F21", "U+0F22", "U+0F23", "U+0F24",
         "U+0F25", "U+0F26", "U+0F27", "U+0F28", "U+0F29">>,
       <<"U+1040", "U+1041", "U+1042", "U+1043", "U+1044",
         "U+1045", "U+1046", "U+1047", "U+1048", "U+1049">>,
       <<"U+1090", "U+1091", "U+1092", "U+1093", "U+1094",
         "U+1095", "U+1096", "U+1097", "U+1098", "U+1099">>,
       <<"U+17E0", "U+17E1", "U+17E2", "U+17E3", "U+17E4",
         "U+17E5", "U+17E6", "U+17E7", "U+17E8", "U+17E9">>,
       <<"U+1810", "U+1811", "U+1812", "U+1813", "U+1814",
         "U+1815", "U+1816", "U+1817", "U+1818", "U+1819">>,
       <<"U+1946", "U+1947", "U+1948", "U+1949", "U+194A",
         "U+194B", "U+194C", "U+194D", "U+194E", "U+194F">>,
       <<"U+19D0", "U+19D1", "U+19D2", "U+19D3", "U+19D4",
         "U+19D5", "U+19D6", "U+19D7", "U+19D8", "U+19D9">>,
       <<"U+1A80", "U+1A81", "U+1A82", "U+1A83", "U+1A84",
         "U+1A85", "U+1A86", "U+1A87", "U+1A88", "U+1A89">>,
       <<"U+1A90", "U+1A91", "U+1A92", "U+1A93", "U+1A94",
         "U+1A95", "U+1A96", "U+1A97", "U+1A98", "U+1A99">>,
       <<"U+1B50", "U+1B51", "U+1B52", "U+1B53", "U+1B54",
         "U+1B55", "U+1B56", "U+1B57", "U+1B58", "U+1B59">>,
       <<"U+1BB0", "U+1BB1", "U+1BB2", "U+1BB3", "U+1BB4",
         "U+1BB5", "U+1BB6", "U+1BB7", "U+1BB8", "U+1BB9">>,
       <<"U+1C40", "U+1C41", "U+1C42", "U+1C43", "U+1C44",
         "U+1C45", "U+1C46", "U+1C47", "U+1C48", "U+1C49">>,
       <<"U+1C50", "U+1C51", "U+1C52", "U+1C53", "U+1C54",
         "U+1C55", "U+1C56", "U+1C57", "U+1C58", "U+1C59">>,
       <<"U+A620", "U+A621", "U+A622", "U+A623", "U+A624",
         "U+A625", "U+A626", "U+A627", "U+A628", "U+A629">>,
       <<"U+A8D0", "U+A8D1", "U+A8D2", "U+A8D3", "U+A8D4",
         "U+A8D5", "U+A8D6", "U+A8D7", "U+A8D8", "U+A8D9">>,
       <<"U+A900", "U+A901", "U+A902", "U+A903", "U+A904",
         "U+A905", "U+A906", "U+A907", "U+A908", "U+A909">>,
       <<"U+A9D0", "U+A9D1", "U+A9D2", "U+A9D3", "U+A9D4",
         "U+A9D5", "U+A9D6", "U+A9D7", "U+A9D8", "U+A9D9">>,
       <<"U+A9F0", "U+A9F1", "U+A9F2", "U+A9F3", "U+A9F4",
         "U+A9F5", "U+A9F6", "U+A9F7", "U+A9F8", "U+A9F9">>,
       <<"U+AA50", "U+AA51", "U+AA52", "U+AA53", "U+AA54",
         "U+AA55", "U+AA56", "U+AA57", "U+AA58", "U+AA59">>,
       <<"U+ABF0", "U+ABF1", "U+ABF2", "U+ABF3", "U+ABF4",
         "U+ABF5", "U+ABF6", "U+ABF7", "U+ABF8", "U+ABF9">>,
       <<"U+FF10", "U+FF11", "U+FF12", "U+FF13", "U+FF14",
         "U+FF15", "U+FF16", "U+FF17", "U+FF18", "U+FF19">>,
       <<"U+104A0", "U+104A1", "U+104A2", "U+104A3", "U+104A4",
         "U+104A5", "U+104A6", "U+104A7", "U+104A8", "U+104A9">>,
       <<"U+10D30", "U+10D31", "U+10D32", "U+10D33", "U+10D34",
         "U+10D35", "U+10D36", "U+10D37", "U+10D38", "U+10D39">>,
       <<"U+11066", "U+11067", "U+11068", "U+11069", "U+1106A",
         "U+1106B", "U+1106C", "U+1106D", "U+1106E", "U+1106F">>,
       <<"U+110F0", "U+110F1", "U+110F2", "U+110F3", "U+110F4",
         "U+110F5", "U+110F6", "U+110F7", "U+110F8", "U+110F9">>,
       <<"U+11136", "U+11137", "U+11138", "U+11139", "U+1113A",
         "U+1113B", "U+1113C", "U+1113D", "U+1113E", "U+1113F">>,
       <<"U+111D0", "U+111D1", "U+111D2", "U+111D3", "U+111D4",
         "U+111D5", "U+111D6", "U+111D7", "U+111D8", "U+111D9">>,
       <<"U+112F0", "U+112F1", "U+112F2", "U+112F3", "U+112F4",
         "U+112F5", "U+112F6", "U+112F7", "U+112F8", "U+112F9">>,
       <<"U+11450", "U+11451", "U+11452", "U+11453", "U+11454",
         "U+11455", "U+11456", "U+11457", "U+11458", "U+11459">>,
       <<"U+114D0", "U+114D1", "U+114D2", "U+114D3", "U+114D4",
         "U+114D5", "U+114D6", "U+114D7", "U+114D8", "U+114D9">>,
       <<"U+11650", "U+11651", "U+11652", "U+11653", "U+11654",
         "U+11655", "U+11656", "U+11657", "U+11658", "U+11659">>,
       <<"U+116C0", "U+116C1", "U+116C2", "U+116C3", "U+116C4",
         "U+116C5", "U+116C6", "U+116C7", "U+116C8", "U+116C9">>,
       <<"U+11730", "U+11731", "U+11732", "U+11733", "U+11734",
         "U+11735", "U+11736", "U+11737", "U+11738", "U+11739">>,
       <<"U+118E0", "U+118E1", "U+118E2", "U+118E3", "U+118E4",
         "U+118E5", "U+118E6", "U+118E7", "U+118E8", "U+118E9">>,
       <<"U+11950", "U+11951", "U+11952", "U+11953", "U+11954",
         "U+11955", "U+11956", "U+11957", "U+11958", "U+11959">>,
       <<"U+11C50", "U+11C51", "U+11C52", "U+11C53", "U+11C54",
         "U+11C55", "U+11C56", "U+11C57", "U+11C58", "U+11C59">>,
       <<"U+11D50", "U+11D51", "U+11D52", "U+11D53", "U+11D54",
         "U+11D55", "U+11D56", "U+11D57", "U+11D58", "U+11D59">>,
       <<"U+11DA0", "U+11DA1", "U+11DA2", "U+11DA3", "U+11DA4",
         "U+11DA5", "U+11DA6", "U+11DA7", "U+11DA8", "U+11DA9">>,
       <<"U+16A60", "U+16A61", "U+16A62", "U+16A63", "U+16A64",
         "U+16A65", "U+16A66", "U+16A67", "U+16A68", "U+16A69">>,
       <<"U+16AC0", "U+16AC1", "U+16AC2", "U+16AC3", "U+16AC4",
         "U+16AC5", "U+16AC6", "U+16AC7", "U+16AC8", "U+16AC9">>,
       <<"U+16B50", "U+16B51", "U+16B52", "U+16B53", "U+16B54",
         "U+16B55", "U+16B56", "U+16B57", "U+16B58", "U+16B59">>,
       <<"U+1D7CE", "U+1D7CF", "U+1D7D0", "U+1D7D1", "U+1D7D2",
         "U+1D7D3", "U+1D7D4", "U+1D7D5", "U+1D7D6", "U+1D7D7">>,
       <<"U+1D7D8", "U+1D7D9", "U+1D7DA", "U+1D7DB", "U+1D7DC",
         "U+1D7DD", "U+1D7DE", "U+1D7DF", "U+1D7E0", "U+1D7E1">>,
       <<"U+1D7E2", "U+1D7E3", "U+1D7E4", "U+1D7E5", "U+1D7E6",
         "U+1D7E7", "U+1D7E8", "U+1D7E9", "U+1D7EA", "U+1D7EB">>,
       <<"U+1D7EC", "U+1D7ED", "U+1D7EE", "U+1D7EF", "U+1D7F0",
         "U+1D7F1", "U+1D7F2", "U+1D7F3", "U+1D7F4", "U+1D7F5">>,
       <<"U+1D7F6", "U+1D7F7", "U+1D7F8", "U+1D7F9", "U+1D7FA",
         "U+1D7FB", "U+1D7FC", "U+1D7FD", "U+1D7FE", "U+1D7FF">>,
       <<"U+1E140", "U+1E141", "U+1E142", "U+1E143", "U+1E144",
         "U+1E145", "U+1E146", "U+1E147", "U+1E148", "U+1E149">>,
       <<"U+1E2F0", "U+1E2F1", "U+1E2F2", "U+1E2F3", "U+1E2F4",
         "U+1E2F5", "U+1E2F6", "U+1E2F7", "U+1E2F8", "U+1E2F9">>,
       <<"U+1E950", "U+1E951", "U+1E952", "U+1E953", "U+1E954",
         "U+1E955", "U+1E956", "U+1E957", "U+1E958", "U+1E959">>,
       <<"U+1FBF0", "U+1FBF1", "U+1FBF2", "U+1FBF3", "U+1FBF4",
         "U+1FBF5", "U+1FBF6", "U+1FBF7", "U+1FBF8", "U+1FBF9">>
    >>
DigitSet ==
    {DigitChars[i] : i \in 1..10}
      \cup {UnicodeDigits[b][i] : b \in 1..Len(UnicodeDigits), i \in 1..10}
IsDigit(c) == c \in DigitSet
DigitVal(c) ==
    CHOOSE v \in 0..9 :
        \/ DigitChars[v + 1] = c
        \/ \E b \in 1..Len(UnicodeDigits) : UnicodeDigits[b][v + 1] = c

\* bytes.decode('utf-8'): raises UnicodeDecodeError on an invalid byte
DecodeOk(line) == \A i \in 1..Len(line) : line[i] # BadByte

\* the whitespace int() skips around a literal
IntWhitespace ==
    { "\t", "U+0009", "\n", "U+000A", "U+000B", "\f", "U+000C", "\r",
      "U+000D", " ", "U+0085", "U+00A0", "U+1680", "U+2000", "U+2001",
      "U+2002", "U+2003", "U+2004", "U+2005", "U+2006", "U+2007", "U+2008",
      "U+2009", "U+200A", "U+2028", "U+2029", "U+202F", "U+205F", "U+3000" }
\* the whitespace of str.strip(): str.isspace(), which also holds of the
\* four separators U+001C..U+001F
Whitespace ==
    IntWhitespace \cup { "U+001C", "U+001D", "U+001E", "U+001F" }

\* str.strip(): leading and trailing whitespace removed
RECURSIVE LStrip(_)
LStrip(s) == IF s # <<>> /\ s[1] \in Whitespace THEN LStrip(Tail(s)) ELSE s
RECURSIVE RStrip(_)
RStrip(s) ==
    IF s # <<>> /\ s[Len(s)] \in Whitespace
    THEN RStrip(SubSeq(s, 1, Len(s) - 1)) ELSE s
Strip(s) == RStrip(LStrip(s))

\* the same with the whitespace of int()
RECURSIVE IntLStrip(_)
IntLStrip(s) == IF s # <<>> /\ s[1] \in IntWhitespace THEN IntLStrip(Tail(s)) ELSE s
RECURSIVE IntRStrip(_)
IntRStrip(s) ==
    IF s # <<>> /\ s[Len(s)] \in IntWhitespace
    THEN IntRStrip(SubSeq(s, 1, Len(s) - 1)) ELSE s

\* how many digits a literal has, underscores not counted
DigitCount(d) == Cardinality({i \in 1..Len(d) : d[i] # "_"})

\* the digits part of an int literal: digits, single underscores between them
DigitsOk(d) ==
    /\ d # <<>>
    /\ IsDigit(d[1]) /\ IsDigit(d[Len(d)])
    /\ \A i \in 1..Len(d) : IsDigit(d[i]) \/ d[i] = "_"
    /\ \A i \in 1..(Len(d) - 1) : ~(d[i] = "_" /\ d[i + 1] = "_")
    \* more digits than sys.int_max_str_digits: ValueError as well
    /\ DigitCount(d) <= IntMaxStrDigits

RECURSIVE DigitsValue(_, _)
DigitsValue(d, acc) ==
    IF d = <<>> THEN acc
    ELSE IF d[1] = "_" THEN DigitsValue(Tail(d), acc)
    ELSE DigitsValue(Tail(d), 10 * acc + DigitVal(d[1]))

\* int(line): [ok |-> TRUE, v |-> n], or ok = FALSE for a ValueError
ParseInt(s) ==
    LET t == IntRStrip(IntLStrip(s))
        signed == t # <<>> /\ t[1] \in {"+", "-"}
        d == IF signed THEN Tail(t) ELSE t
    IN  IF DigitsOk(d)
        THEN [ok |-> TRUE,
              v |-> IF signed /\ t[1] = "-" THEN 0 - DigitsValue(d, 0)
                    ELSE DigitsValue(d, 0)]
        ELSE [ok |-> FALSE, v |-> 0]

(***************************************************************************)
(* What the device sends.  A run is given one script: the lines the serial *)
(* device writes after reset_input_buffer(), or the mean red intensity of  *)
(* the frames the camera delivers (np.mean(frame[:, :, 2])).               *)
(***************************************************************************)
L12 == <<"1", "2">>
L34 == <<"3", "4">>
L100 == <<"1", "0", "0">>
L200 == <<"2", "0", "0">>
Oops == <<"o", "o", "p", "s">>

SerialMixed ==
    << L12, Oops, L34, <<>>, <<"\t", "7", "\r">>, <<"-", "5">>, <<"1", "_", "0">>,
       <<"9", BadByte>>, <<"+", "3">>, <<"1", ".", "5">>, <<"U+0668">>, <<"9">>,
       <<"2", "1">>, <<"2", "2">>, <<"2", "3">>, <<"2", "4">>, <<"2", "5">> >>
SerialSteps ==
    << L100, L200, L100, L100, L100, L100, L100, L100, L100, L100, L100, L100,
       L100 >>
SerialScripts == {SerialMixed, SerialSteps}

CameraRamp == [i \in 1..13 |-> 119 + i]
CameraScripts == {CameraRamp}

ClockSteps == {TicksPerSecond, 11 * TicksPerSecond}

(***************************************************************************)
(* State.                                                                  *)
(***************************************************************************)
VARIABLES
    variant,        \* "serial" (realtime_plot.py) or "camera" (video_reader.py)
    pc,             \* position of run() / start()
    exc,            \* the exception being raised, or None
    ended_by,       \* why the loop ended, or None
    device,         \* "ok" or "gone" (disconnected)
    highgui,        \* whether the OpenCV build has GUI support: without it
                    \* cv2.imshow and cv2.destroyAllWindows raise cv2.error
    script, sent,   \* what the device sends, and how much of it was sent
    inbuf,          \* serial input buffer: lines waiting (in_waiting)
    clock,          \* time.time()
    advances,       \* how often the clock advanced
    start_time,     \* self.start_time
    serial_port,    \* self.serial_port: None, "open", "closed"
    cap,            \* self.cap: None, "unopened", "open", "released"
    is_running,     \* self.is_running
    max_points,     \* self.max_points
    times, values,          \* ArduinoReader buffer
    ppg_times, ppg_values,  \* VideoReader buffer
    xlim, ylim, title, line_data,   \* the display surface (ax, line)
    fig,            \* self.fig: None, "open", "closed"
    animation,      \* self.animation: None, "running", "detached"
                    \* (stopped by the figure's close event: event_source
                    \* is None)
    releases,       \* calls made of serial_port.close() / cap.release(),
                    \* counted also when the call raises
    ticked,         \* whether update_plot was ever called
    appended,       \* every sample ever appended, as <<time, value>>
    avail_at_call,  \* lines waiting when the current drain was called
    drained         \* lines the current drain has read

vars == << variant, pc, exc, ended_by, device, highgui, script, sent, inbuf, clock,
           advances, start_time, serial_port, cap, is_running, max_points,
           times, values, ppg_times, ppg_values, xlim, ylim, title, line_data,
           fig, animation, releases, ticked, appended, avail_at_call,
           drained >>

envVars == << device, script, sent, inbuf, clock, advances >>
bufVars == << times, values, ppg_times, ppg_values, appended >>
viewVars == << xlim, ylim, title, line_data >>
drainVars == << avail_at_call, drained >>
guiVars == << fig, animation >>

\* the display before any set_xlim / set_ylim / set_title of the program
NoLim == [set |-> FALSE, lo |-> 0, hi |-> 0]
Lim(lo, hi) == [set |-> TRUE, lo |-> lo, hi |-> hi]
NoTitle == [rate |-> FALSE, num |-> 0, den |-> 1, tenths |-> 0]

\* __init__ of ArduinoReader (lines 9-19) and of VideoReader (lines 9-31)
Init ==
    /\ variant \in {"serial", "camera"}
    /\ pc = "start"
    /\ exc = None
    /\ ended_by = None
    /\ device = "ok"
    /\ highgui \in (IF variant = "camera" THEN BOOLEAN ELSE {TRUE})
    /\ script \in (IF variant = "serial" THEN SerialScripts ELSE CameraScripts)
    /\ sent = 0
    /\ inbuf = <<>>
    /\ clock = Epoch
    /\ advances = 0
    /\ start_time = NoTime
    /\ serial_port = None
    /\ cap = None
    /\ is_running = FALSE
    /\ max_points = (IF variant = "serial" THEN SerialMaxPoints ELSE CameraMaxPoints)
    /\ times = <<>> /\ values = <<>>
    /\ ppg_times = <<>> /\ ppg_values = <<>>
    /\ xlim = NoLim /\ ylim = NoLim /\ title = NoTitle
    /\ line_data = [x |-> <<>>, y |-> <<>>]
    /\ fig = None /\ animation = None
    /\ releases = 0
    /\ ticked = FALSE
    /\ appended = <<>>
    /\ avail_at_call = 0 /\ drained = 0

(***************************************************************************)
(* The bounded buffer: append, then pop(0) when longer than max_points.    *)
(* realtime_plot.py lines 51-57, video_reader.py lines 133-139.            *)
(***************************************************************************)
\* (mutants) no eviction; the new sample dropped instead of the oldest
AppendNeverEvicts(buf, x, capacity) == Append(buf, x)
AppendEvictsNewest(buf, x, capacity) ==
    IF Len(buf) + 1 > capacity THEN buf ELSE Append(buf, x)
AppendBounded(buf, x, capacity) ==
    LET b == Append(buf, x)
    IN  IF Len(b) > capacity THEN Pop0(b) ELSE b

\* f"{data_rate:.1f}": the tenths the title shows for the rate num/den.
\* Python rounds the binary double it computed, not the exact quotient:
\* where the exact quotient lies half way between two tenths the double is
\* a little above or below it (or, when it is exact in binary, rounds half
\* to even), so either neighbour may be shown; elsewhere the nearest is.
RoundTenths(num, den) ==
    LET q == (10 * num) \div den
        r == (10 * num) % den
    IN  IF 2 * r = den THEN {q, q + 1}
        ELSE IF 2 * r > den THEN {q + 1} ELSE {q}

\* the titles set_title may be given for the rate num/den
RateTitle(num, den) ==
    {[rate |-> TRUE, num |-> num, den |-> den, tenths |-> t] :
        t \in RoundTenths(num, den)}

(***************************************************************************)
(* The environment: the clock, the device.                                 *)
(***************************************************************************)
\* the run is between arming the timer and leaving the loop
Running == pc \in {"loop", "drain", "waitkey", "callback_error"}

\* time passes: time.time() never goes backwards
Advance(d) ==
    /\ Running
    /\ advances < MaxAdvances
    /\ clock' = clock + d
    /\ advances' = advances + 1
    /\ UNCHANGED << variant, highgui, guiVars, pc, exc, ended_by, device,
                    script, sent, inbuf, start_time, serial_port, cap,
                    is_running, max_points, bufVars, viewVars, releases,
                    ticked, drainVars >>

\* the serial device writes its next line; the driver queues it
DeviceSends ==
    /\ variant = "serial"
    /\ serial_port = "open" /\ Running
    /\ device = "ok"
    /\ sent < Len(script)
    /\ Len(inbuf) < MaxInWaiting
    /\ sent' = sent + 1
    /\ inbuf' = Append(inbuf, script[sent + 1])
    /\ UNCHANGED << variant, highgui, guiVars, pc, exc, ended_by, device,
                    script, clock, advances, start_time, serial_port, cap,
                    is_running, max_points, bufVars, viewVars, releases,
                    ticked, drainVars >>

\* the device is unplugged
DeviceFault ==
    /\ Running
    /\ device = "ok"
    /\ device' = "gone"
    /\ UNCHANGED << variant, highgui, guiVars, pc, exc, ended_by, script, sent,
                    inbuf, clock, advances, start_time, serial_port, cap,
                    is_running, max_points, bufVars, viewVars, releases,
                    ticked, drainVars >>

(***************************************************************************)
(* realtime_plot.py: ArduinoReader.run, lines 98-139.                      *)
(***************************************************************************)
\* (mutant) the run goes on without a port
RunFindPortNoReturn(found) ==
    /\ variant = "serial" /\ pc = "start"
    /\ pc' = "connect"
    /\ ended_by' = (IF found THEN ended_by ELSE "not_found")
    /\ UNCHANGED << variant, highgui, guiVars, exc, envVars, start_time,
                    serial_port, cap, is_running, max_points, bufVars,
                    viewVars, releases, ticked, drainVars >>

\* lines 100-103: find_arduino_port() returns a device name, or None: print
\* "No Arduino found!" and return
RunFindPort(found) ==
    /\ variant = "serial" /\ pc = "start"
    /\ pc' = (IF found THEN "connect" ELSE "done")
    /\ ended_by' = (IF found THEN ended_by ELSE "not_found")
    /\ UNCHANGED << variant, highgui, guiVars, exc, envVars, start_time,
                    serial_port, cap, is_running, max_points, bufVars,
                    viewVars, releases, ticked, drainVars >>

\* lines 105-108: serial.Serial(...), reset_input_buffer(), start_time.
\* Either call may raise; nothing encloses them.
RunConnect(outcome) ==
    /\ variant = "serial" /\ pc = "connect"
    /\ outcome \in {"ok", "open_raises", "reset_raises"}
    /\ serial_port' = (IF outcome = "open_raises" THEN None ELSE "open")
    /\ start_time' = (IF outcome = "ok" THEN clock ELSE start_time)
    /\ exc' = (IF outcome = "ok" THEN None ELSE "SerialException")
    /\ pc' = (IF outcome = "ok" THEN "setup" ELSE "done")
    /\ inbuf' = <<>>
    /\ UNCHANGED << variant, highgui, guiVars, ended_by, device, script, sent,
                    clock, advances, cap, is_running, max_points, bufVars,
                    viewVars, releases, ticked, drainVars >>

\* lines 110-122: the figure, the line, the initial limits; before the try
RunSetupPlot(ok) ==
    /\ variant = "serial" /\ pc = "setup"
    /\ IF ok
       THEN /\ fig' = "open"
            /\ xlim' = Lim(0, time_window)
            /\ ylim' = Lim(0, InitialYMax * YScale)
            /\ title' = NoTitle
            /\ pc' = "arm"
            /\ exc' = None
       ELSE /\ UNCHANGED << fig, xlim, ylim, title >>
            /\ pc' = "done"
            /\ exc' = "DisplayError"
    /\ UNCHANGED << variant, highgui, animation, ended_by, envVars, start_time,
                    serial_port, cap, is_running, max_points, bufVars,
                    line_data, releases, ticked, drainVars >>

\* lines 124-134: inside the try, FuncAnimation(...) then plt.show().  When
\* FuncAnimation raises, self.animation stays None; when plt.show() raises,
\* it was assigned
RunArm(outcome) ==
    /\ variant = "serial" /\ pc = "arm"
    /\ outcome \in {"ok", "animation_raises", "show_raises"}
    /\ animation' = (IF outcome = "animation_raises" THEN None ELSE "running")
    /\ pc' = (IF outcome = "ok" THEN "loop" ELSE "finally")
    /\ exc' = (IF outcome = "ok" THEN None ELSE "DisplayError")
    /\ UNCHANGED << variant, highgui, fig, ended_by, envVars, start_time,
                    serial_port, cap, is_running, max_points, bufVars,
                    viewVars, releases, ticked, drainVars >>

\* plt.show() returns: the window was closed.  The figure's close event
\* stops the animation and clears its event_source
WindowClosed ==
    /\ variant = "serial" /\ pc = "loop"
    /\ pc' = "finally"
    /\ ended_by' = "window_closed"
    /\ fig' = "closed"
    /\ animation' = "detached"
    /\ UNCHANGED << variant, highgui, exc, envVars, start_time, serial_port,
                    cap, is_running, max_points, bufVars, viewVars, releases,
                    ticked, drainVars >>

\* (mutant) the finally block does not close the port
RunFinallyLeavesOpen ==
    /\ variant = "serial" /\ pc = "finally"
    /\ pc' = "done"
    /\ UNCHANGED << variant, highgui, guiVars, exc, ended_by, envVars,
                    start_time, serial_port, cap, is_running, max_points,
                    bufVars, viewVars, releases, ticked, drainVars >>

\* lines 136-139: finally: if self.serial_port: self.serial_port.close()
RunFinally ==
    /\ variant = "serial" /\ pc = "finally"
    /\ IF serial_port # None
       THEN serial_port' = "closed" /\ releases' = releases + 1
       ELSE UNCHANGED << serial_port, releases >>
    /\ pc' = "done"
    /\ UNCHANGED << variant, highgui, guiVars, exc, ended_by, envVars,
                    start_time, cap, is_running, max_points, bufVars, viewVars,
                    ticked, drainVars >>

(***************************************************************************)
(* realtime_plot.py: the tick.  update_plot (65-96) calls                  *)
(* read_all_available_data (37-63), then rescales.                         *)
(***************************************************************************)
\* the animation timer calls update_plot, which calls the drain (line 68)
TimerFires ==
    /\ variant = "serial" /\ pc = "loop"
    /\ animation = "running"
    /\ pc' = "drain"
    /\ ticked' = TRUE
    /\ avail_at_call' = Len(inbuf)
    /\ drained' = 0
    /\ UNCHANGED << variant, highgui, guiVars, exc, ended_by, envVars,
                    start_time, serial_port, cap, is_running, max_points,
                    bufVars, viewVars, releases >>

\* line 42, the loop test: self.serial_port.in_waiting raises when the device
\* is gone; the test is outside the try, so the exception leaves the drain and
\* update_plot
DrainTestRaises ==
    /\ variant = "serial" /\ pc = "drain"
    /\ device = "gone"
    /\ pc' = "callback_error"
    /\ exc' = "OSError"
    /\ avail_at_call' = 0
    /\ drained' = 0
    /\ UNCHANGED << variant, highgui, guiVars, ended_by, envVars, start_time,
                    serial_port, cap, is_running, max_points, bufVars,
                    viewVars, releases, ticked >>

\* (mutant) the eviction pops the oldest time but not the oldest value
StoreSampleEvictsTimesOnly(value) ==
    LET current_time == clock - start_time
    IN  /\ times' = AppendBounded(times, current_time, max_points)
        /\ values' = Append(values, value)
        /\ appended' = Append(appended, <<current_time, value>>)

\* lines 51-57: store value and time, keep only the last max_points
StoreSample(value) ==
    LET current_time == clock - start_time
    IN  /\ times' = AppendBounded(times, current_time, max_points)
        /\ values' = AppendBounded(values, value, max_points)
        /\ appended' = Append(appended, <<current_time, value>>)

\* (mutant) a malformed line stores a sample all the same
DrainLineStoresMalformed ==
    /\ variant = "serial" /\ pc = "drain"
    /\ device = "ok"
    /\ inbuf # <<>>
    /\ inbuf' = Tail(inbuf)
    /\ drained' = drained + 1
    /\ LET parsed == ParseInt(Strip(Head(inbuf)))
       IN  StoreSample(parsed.v)
    /\ UNCHANGED << variant, highgui, guiVars, pc, exc, ended_by, device,
                    script, sent, clock, advances, start_time, serial_port,
                    cap, is_running, max_points, ppg_times, ppg_values,
                    viewVars, releases, ticked, avail_at_call >>

\* lines 43-61, one pass of the loop body: readline() returns the next line
DrainLine ==
    /\ variant = "serial" /\ pc = "drain"
    /\ device = "ok"
    /\ inbuf # <<>>
    /\ inbuf' = Tail(inbuf)
    /\ drained' = drained + 1
    /\ LET raw == Head(inbuf)
           line == Strip(raw)
           parsed == ParseInt(line)
       IN  IF DecodeOk(raw) /\ line # <<>> /\ parsed.ok
           THEN StoreSample(parsed.v)
           ELSE \* UnicodeDecodeError or ValueError caught at line 60, or an
                \* empty line
                UNCHANGED << times, values, appended >>
    /\ UNCHANGED << variant, highgui, guiVars, pc, exc, ended_by, device,
                    script, sent, clock, advances, start_time, serial_port,
                    cap, is_running, max_points, ppg_times, ppg_values,
                    viewVars, releases, ticked, avail_at_call >>

\* lines 43-44 and 60-61: readline() raises (the port is read by another
\* process, a driver error); caught, nothing was read, the loop tests again
DrainReadRaises ==
    /\ variant = "serial" /\ pc = "drain"
    /\ device = "ok"
    /\ inbuf # <<>>
    /\ UNCHANGED vars

\* (mutant) the range without its floor of 50
SerialYLimNoFloor(vals) ==
    LET current_min == SeqMin(vals)
        current_max == SeqMax(vals)
        y_range == current_max - current_min
        mid18 == 9 * (current_min + current_max)
    IN  Lim(mid18 - 10 * y_range, mid18 + 10 * y_range)

\* lines 75-80
SerialYLim(vals) ==
    LET current_min == SeqMin(vals)
        current_max == SeqMax(vals)
        y_range == Max2(MinYRange, current_max - current_min)
        mid18 == 9 * (current_min + current_max)
    IN  Lim(mid18 - 10 * y_range, mid18 + 10 * y_range)

\* (mutant) the left edge not held at 0
SerialXLimNoClamp(current_time) ==
    Lim(current_time - time_window, current_time + SerialMargin)

\* lines 86-89
SerialXLim(current_time) ==
    Lim(Max2(0, current_time - time_window), current_time + SerialMargin)

\* line 93
SerialRate(ts) == [num |-> Len(ts) * TicksPerSecond, den |-> ts[Len(ts)] - ts[1]]

\* (mutant) update_plot moves the x-axis also when the buffer is empty
DrainReturnsAndPlotEmptyRescales ==
    /\ variant = "serial" /\ pc = "drain"
    /\ device = "ok"
    /\ inbuf = <<>>
    /\ avail_at_call' = 0
    /\ drained' = 0
    /\ xlim' = SerialXLim(clock - start_time)
    /\ pc' = "loop"
    /\ UNCHANGED << variant, highgui, guiVars, exc, ended_by, envVars,
                    start_time, serial_port, cap, is_running, max_points,
                    bufVars, ylim, title, line_data, releases, ticked >>

\* line 42 false: nothing is waiting, the drain returns (line 63) and
\* update_plot goes on (lines 70-96)
DrainReturnsAndPlot ==
    /\ variant = "serial" /\ pc = "drain"
    /\ device = "ok"
    /\ inbuf = <<>>
    /\ avail_at_call' = 0
    /\ drained' = 0
    /\ IF times # <<>> /\ values # <<>>
       THEN /\ line_data' = [x |-> times, y |-> values]
            /\ ylim' = (IF Len(values) > MinYCount THEN SerialYLim(values) ELSE ylim)
            /\ xlim' = SerialXLim(clock - start_time)
            /\ IF Len(times) > MinRateCount
               THEN LET data_rate == SerialRate(times)
                    IN  IF data_rate.den = 0
                        THEN /\ exc' = "ZeroDivisionError"
                             /\ pc' = "callback_error"
                             /\ title' = title
                        ELSE /\ title' \in RateTitle(data_rate.num, data_rate.den)
                             /\ pc' = "loop"
                             /\ exc' = exc
               ELSE /\ title' = title /\ pc' = "loop" /\ exc' = exc
       ELSE /\ UNCHANGED << viewVars, exc >>
            /\ pc' = "loop"
    /\ UNCHANGED << variant, highgui, guiVars, ended_by, envVars, start_time,
                    serial_port, cap, is_running, max_points, bufVars,
                    releases, ticked >>

SerialNext ==
    \/ \E found \in BOOLEAN : RunFindPort(found)
    \/ \E o \in {"ok", "open_raises", "reset_raises"} : RunConnect(o)
    \/ \E ok \in BOOLEAN : RunSetupPlot(ok)
    \/ \E o \in {"ok", "animation_raises", "show_raises"} : RunArm(o)
    \/ WindowClosed
    \/ RunFinally
    \/ TimerFires
    \/ DrainTestRaises
    \/ DrainLine
    \/ DrainReadRaises
    \/ DrainReturnsAndPlot

(***************************************************************************)
(* video_reader.py: VideoReader.start (169-266), close (268-278),          *)
(* calculate_ppg (119-141), update_plot (143-167).                         *)
(***************************************************************************)
\* lines 170-193: cv2.VideoCapture(camera_id) raises, or gives a capture that
\* is not opened (print, return), or an opened one
StartOpen(outcome) ==
    /\ variant = "camera" /\ pc = "start"
    /\ outcome \in {"ok", "raises", "not_opened"}
    /\ cap' = (CASE outcome = "ok" -> "open"
                 [] outcome = "not_opened" -> "unopened"
                 [] OTHER -> None)
    /\ is_running' = (outcome = "ok")
    /\ start_time' = (IF outcome = "ok" THEN clock ELSE start_time)
    /\ pc' = (IF outcome = "ok" THEN "setup" ELSE "finally")
    /\ ended_by' = (CASE outcome = "ok" -> None
                      [] outcome = "not_opened" -> "not_opened"
                      [] OTHER -> "error")
    /\ UNCHANGED << variant, highgui, guiVars, exc, envVars, serial_port,
                    max_points, bufVars, viewVars, releases, ticked, drainVars
                    >>

\* lines 195-218: the figure, the animation, plt.show(block=False); an
\* exception is caught at line 261.  plt.subplots (196) raising leaves the
\* object as __init__ made it; FuncAnimation (207) and plt.show (215) raise
\* after set_title (198) and set_xlim (204) have acted
StartSetupPlot(outcome) ==
    /\ variant = "camera" /\ pc = "setup"
    /\ outcome \in {"ok", "subplots_raises", "animation_raises", "show_raises"}
    /\ IF outcome = "subplots_raises"
       THEN UNCHANGED << fig, xlim, title >>
       ELSE /\ fig' = "open"
            /\ xlim' = Lim(0, window_size)
            /\ title' = NoTitle
    /\ animation' = (IF outcome \in {"ok", "show_raises"}
                     THEN "running" ELSE animation)
    /\ pc' = (IF outcome = "ok" THEN "loop" ELSE "finally")
    /\ ended_by' = (IF outcome = "ok" THEN ended_by ELSE "error")
    /\ UNCHANGED << variant, highgui, exc, envVars, start_time, serial_port,
                    cap, is_running, max_points, bufVars, ylim, line_data,
                    releases, ticked, drainVars >>

\* (mutant) the operands of the subtraction swapped
calculate_ppg_swapped(ppg_value) ==
    LET current_time == clock
        t0 == IF start_time = NoTime THEN current_time ELSE start_time
        relative_time == t0 - current_time
    IN  /\ start_time' = t0
        /\ ppg_values' = AppendBounded(ppg_values, ppg_value, max_points)
        /\ ppg_times' = AppendBounded(ppg_times, relative_time, max_points)
        /\ appended' = Append(appended, <<relative_time, ppg_value>>)

\* lines 127-139 of calculate_ppg: the timestamp, the appends, the eviction
calculate_ppg(ppg_value) ==
    LET current_time == clock
        t0 == IF start_time = NoTime THEN current_time ELSE start_time
        relative_time == current_time - t0
    IN  /\ start_time' = t0
        /\ ppg_values' = AppendBounded(ppg_values, ppg_value, max_points)
        /\ ppg_times' = AppendBounded(ppg_times, relative_time, max_points)
        /\ appended' = Append(appended, <<relative_time, ppg_value>>)

\* lines 220-254, one pass of the capture loop up to imshow.  cap.read()
\* gives a frame, calculate_ppg stores it, the frame is annotated and shown.
\* cap.read() may raise instead (nothing stored), and so may cv2.putText
\* after the frame was stored: line 261 catches both.  An exception of imshow
\* is caught at line 252 (break).
CaptureFrame(after) ==
    /\ variant = "camera" /\ pc = "loop" /\ is_running
    /\ device = "ok"
    /\ sent < Len(script)
    /\ after \in {"shown", "read_raises", "puttext_raises", "imshow_raises"}
    /\ after = "shown" => highgui
    /\ IF after = "read_raises"
       THEN UNCHANGED << sent, start_time, ppg_values, ppg_times, appended >>
       ELSE /\ sent' = sent + 1
            /\ calculate_ppg(script[sent + 1])
    /\ pc' = (IF after = "shown" THEN "waitkey" ELSE "finally")
    /\ ended_by' = (CASE after = "shown" -> ended_by
                      [] after = "imshow_raises" -> "display_failed"
                      [] OTHER -> "error")
    /\ UNCHANGED << variant, highgui, guiVars, exc, device, script, inbuf,
                    clock, advances, serial_port, cap, is_running, max_points,
                    times, values, viewVars, releases, ticked, drainVars >>

\* lines 256-259: cv2.waitKey(1) has processed the GUI events (the animation
\* timer may have called update_plot meanwhile, see CameraTick) and returns
\* the key: 'q' breaks, anything else starts the next pass; an exception of
\* waitKey is caught at line 261
WaitKey(key) ==
    /\ variant = "camera" /\ pc = "waitkey"
    /\ key \in {"none", "q", "raises"}
    /\ pc' = (IF key = "none" THEN "loop" ELSE "finally")
    /\ ended_by' = (CASE key = "none" -> ended_by
                      [] key = "q" -> "quit_key"
                      [] OTHER -> "error")
    /\ UNCHANGED << variant, highgui, guiVars, exc, envVars, start_time,
                    serial_port, cap, is_running, max_points, bufVars,
                    viewVars, releases, ticked, drainVars >>

\* lines 222-225: cap.read() gives no frame: print and break
CaptureFails ==
    /\ variant = "camera" /\ pc = "loop" /\ is_running
    /\ device = "gone"
    /\ pc' = "finally"
    /\ ended_by' = "read_failed"
    /\ UNCHANGED << variant, highgui, guiVars, exc, envVars, start_time,
                    serial_port, cap, is_running, max_points, bufVars,
                    viewVars, releases, ticked, drainVars >>

\* lines 151-154
CameraXLim(current_time) ==
    Lim(Max2(0, current_time - window_size), current_time + CameraMargin)

\* (mutant) the bounds without the padding of 10
CameraYLimNoPad(vals) ==
    Lim(YScale * SeqMin(vals), YScale * SeqMax(vals))

\* lines 158-160
CameraYLim(vals) ==
    Lim(YScale * (SeqMin(vals) - CameraYPad), YScale * (SeqMax(vals) + CameraYPad))

\* line 164
CameraRate(vals, now) ==
    [num |-> Len(vals) * TicksPerSecond, den |-> now - start_time]

\* (mutant) update_plot moves the axes but does not hand the data to the line
CameraTickKeepsOldData ==
    /\ variant = "camera" /\ pc = "waitkey"
    /\ animation = "running"
    /\ ticked' = TRUE
    /\ IF ppg_values # <<>> /\ ppg_times # <<>>
       THEN /\ line_data' = line_data
            /\ xlim' = CameraXLim(ppg_times[Len(ppg_times)])
            /\ ylim' = CameraYLim(ppg_values)
            /\ title' = title /\ pc' = pc /\ exc' = exc
       ELSE UNCHANGED << viewVars, exc, pc >>
    /\ UNCHANGED << variant, highgui, guiVars, ended_by, envVars, start_time,
                    serial_port, cap, is_running, max_points, bufVars,
                    releases, drainVars >>

\* lines 143-167: update_plot, called by the animation timer while
\* cv2.waitKey (line 257) processes the GUI events
CameraTick ==
    /\ variant = "camera" /\ pc = "waitkey"
    /\ animation = "running"
    /\ ticked' = TRUE
    /\ IF ppg_values # <<>> /\ ppg_times # <<>>
       THEN /\ line_data' = [x |-> ppg_times, y |-> ppg_values]
            /\ xlim' = CameraXLim(ppg_times[Len(ppg_times)])
            /\ ylim' = CameraYLim(ppg_values)
            /\ IF Len(ppg_values) > MinRateCount
               THEN LET data_rate == CameraRate(ppg_values, clock)
                    IN  IF data_rate.den = 0
                        THEN /\ exc' = "ZeroDivisionError"
                             /\ pc' = "callback_error"
                             /\ title' = title
                        ELSE /\ title' \in RateTitle(data_rate.num, data_rate.den)
                             /\ pc' = pc
                             /\ exc' = exc
               ELSE /\ title' = title /\ pc' = pc /\ exc' = exc
       ELSE UNCHANGED << viewVars, exc, pc >>
    /\ UNCHANGED << variant, highgui, guiVars, ended_by, envVars, start_time,
                    serial_port, cap, is_running, max_points, bufVars,
                    releases, drainVars >>

\* the plot window is closed by the user while the capture loop runs: the
\* figure's close event stops the animation and clears its event_source; the
\* loop goes on
PlotWindowClosed ==
    /\ variant = "camera" /\ pc = "waitkey"
    /\ fig = "open"
    /\ fig' = "closed"
    /\ animation' = "detached"
    /\ UNCHANGED << variant, highgui, pc, exc, ended_by, envVars, start_time,
                    serial_port, cap, is_running, max_points, bufVars,
                    viewVars, releases, ticked, drainVars >>

\* what a call of close() may meet: every library call returns, cap.release()
\* raises, or cv2.destroyAllWindows() raises, which it does exactly on an
\* OpenCV build without GUI support
CloseOutcomes == {"ok", "release_raises", "destroy_raises"}

\* lines 268-278: close().  Line 270 guards the release; cap.release() (271)
\* or cv2.destroyAllWindows() (272) may raise, and then is_running keeps its
\* value; line 275 raises AttributeError when the animation's event_source is
\* None, which it is once the figure's close event has run; plt.close (277)
\* closes the window and so fires that event
close(outcome) ==
    LET releasing == cap # None
        stop_raises == outcome = "ok" /\ animation = "detached"
        completes == outcome = "ok" /\ ~stop_raises
    IN  /\ outcome \in CloseOutcomes
        /\ outcome = "release_raises" => releasing
        /\ outcome = "destroy_raises" <=>
              (~highgui /\ outcome # "release_raises")
        /\ releases' = (IF releasing THEN releases + 1 ELSE releases)
        /\ cap' = (IF releasing /\ outcome # "release_raises"
                   THEN "released" ELSE cap)
        /\ is_running' = (IF outcome = "ok" THEN FALSE ELSE is_running)
        /\ animation' = (IF completes /\ animation # None
                         THEN "detached" ELSE animation)
        /\ fig' = (IF completes /\ fig # None THEN "closed" ELSE fig)
        /\ exc' = (CASE outcome # "ok" -> "error"
                     [] stop_raises -> "AttributeError"
                     [] OTHER -> exc)

\* lines 265-266: finally: self.close(); what close() raises leaves start()
StartFinally ==
    /\ variant = "camera" /\ pc = "finally"
    /\ \E o \in CloseOutcomes : close(o)
    /\ pc' = "done"
    /\ UNCHANGED << variant, highgui, ended_by, envVars, start_time,
                    serial_port, max_points, bufVars, viewVars, ticked,
                    drainVars >>

\* lines 268-278: close() called again by the caller after start() returned
\* (no exception left it).  close() never clears self.cap, self.animation or
\* self.fig, so the guards at lines 270, 274 and 276 pass again; releasing
\* the capture that the first call released does nothing
Close(outcome) ==
    /\ variant = "camera" /\ pc = "done" /\ exc = None
    /\ outcome # "release_raises"
    /\ cap # None => releases <= MaxExplicitCloses
    /\ close(outcome)
    /\ UNCHANGED << variant, highgui, pc, ended_by, envVars, start_time,
                    serial_port, max_points, bufVars, viewVars, ticked,
                    drainVars >>

CameraNext ==
    \/ \E o \in {"ok", "raises", "not_opened"} : StartOpen(o)
    \/ \E o \in {"ok", "subplots_raises", "animation_raises", "show_raises"} :
          StartSetupPlot(o)
    \/ \E a \in {"shown", "read_raises", "puttext_raises", "imshow_raises"} :
          CaptureFrame(a)
    \/ \E k \in {"none", "q", "raises"} : WaitKey(k)
    \/ CaptureFails
    \/ CameraTick
    \/ PlotWindowClosed
    \/ StartFinally
    \/ \E o \in CloseOutcomes \ {"release_raises"} : Close(o)

\* an exception left the timer callback.  What the GUI backend does with it
\* depends on the backend: it reports it and keeps running, or the call that
\* runs the event loop (plt.show(), cv2.waitKey()) raises it.  In run() it then
\* leaves through the finally; in start() line 261 catches and prints it.
CallbackErrorHandled(propagates) ==
    /\ pc = "callback_error"
    /\ IF propagates
       THEN /\ pc' = "finally"
            /\ exc' = (IF variant = "serial" THEN exc ELSE None)
            /\ ended_by' = "tick_raised"
       ELSE /\ pc' = (IF variant = "serial" THEN "loop" ELSE "waitkey")
            /\ exc' = None
            /\ ended_by' = ended_by
    /\ UNCHANGED << variant, highgui, guiVars, envVars, start_time,
                    serial_port, cap, is_running, max_points, bufVars,
                    viewVars, releases, ticked, drainVars >>

EnvNext ==
    \/ \E d \in ClockSteps : Advance(d)
    \/ DeviceSends
    \/ DeviceFault

Next ==
    \/ SerialNext
    \/ CameraNext
    \/ \E p \in BOOLEAN : CallbackErrorHandled(p)
    \/ EnvNext

Spec == Init /\ [][Next]_vars

(***************************************************************************)
(* Fairness: once control leaves the try, Python runs the finally block.   *)
(* The way a run ends does not depend on the values read, only on there    *)
(* being samples (more than 10 for the rate, with a zero time span or      *)
(* not), so the fair runs start from one script per variant: the serial    *)
(* step script and the camera ramp.                                        *)
(***************************************************************************)
FairInit ==
    /\ Init
    /\ variant = "serial" => script = SerialSteps
    /\ variant = "camera" => script = CameraRamp
FairSpec ==
    FairInit /\ [][Next]_vars /\ WF_vars(RunFinally \/ StartFinally)

(***************************************************************************)
(* Views of the state used by the properties.                              *)
(***************************************************************************)
\* the run lifecycle of the spec, read off the position of run() / start()
Phase ==
    CASE pc = "start" -> "Idle"
      [] pc \in {"connect", "setup", "arm"} -> "Acquiring"
      [] pc \in {"loop", "drain", "waitkey", "callback_error"} -> "Running"
      [] pc = "finally" -> "Closing"
      [] OTHER -> "Closed"

\* the buffer of the running variant
BufTimes == IF variant = "serial" THEN times ELSE ppg_times
BufValues == IF variant = "serial" THEN values ELSE ppg_values
BufSamples == [i \in 1..Len(BufTimes) |-> <<BufTimes[i], BufValues[i]>>]

NonDecreasing(ts) == \A i \in 1..(Len(ts) - 1) : ts[i] <= ts[i + 1]

\* the lines the drain has read so far
LinesRead == SubSeq(script, 1, sent - Len(inbuf))

SourceOpen == serial_port = "open" \/ cap = "open"

(***************************************************************************)
(* Properties.                                                             *)
(***************************************************************************)
Min2(a, b) == IF a <= b THEN a ELSE b

\* C1: the length of each buffer (times/values, ppg_times/ppg_values) never
\* exceeds max_points, whatever was appended and however long a drain ran.
C1_LengthBounded ==
    /\ Len(times) <= max_points /\ Len(values) <= max_points
    /\ Len(ppg_times) <= max_points /\ Len(ppg_values) <= max_points

\* a full serial buffer after evictions, inside a drain that has read more
\* lines than were waiting when it was called
C1_Witness ==
    /\ variant = "serial" /\ pc = "drain"
    /\ Len(appended) > max_points /\ Len(times) = max_points
    /\ drained > avail_at_call /\ drained >= 3

\* C2: eviction is FIFO: after k appends the buffer holds exactly the last
\* min(k, max_points) appended samples in append order, so its oldest sample
\* is the one of index max(0, k - max_points) among all appended.
C2_Fifo ==
    LET k == Len(appended)
        n == Min2(k, max_points)
    IN  /\ Len(BufTimes) = n /\ Len(BufValues) = n
        /\ BufSamples = SubSeq(appended, k - n + 1, k)

\* two samples were evicted from the serial buffer: of the 13 values appended
\* the oldest kept is the third one (index 2), the newest the last
C2_Witness ==
    /\ variant = "serial" /\ script = SerialMixed
    /\ Len(appended) = max_points + 2
    /\ values[1] = appended[3][2] /\ values[1] = 7
    /\ values[Len(values)] = 25

\* C3: the timestamps in each buffer are non-decreasing from head to tail
\* (the clock never goes backwards and start_time is set once).
C3_TimesNonDecreasing == NonDecreasing(times) /\ NonDecreasing(ppg_times)

\* a buffer that has evicted, with the clock advanced between two samples
C3_Witness ==
    /\ Len(appended) > max_points
    /\ BufTimes[1] < BufTimes[Len(BufTimes)]
    /\ variant = "camera"

\* what int() makes of the lines that decode, are not empty and parse
LineWellFormed(raw) ==
    DecodeOk(raw) /\ Strip(raw) # <<>> /\ ParseInt(Strip(raw)).ok
RECURSIVE WellFormedValues(_)
WellFormedValues(lines) ==
    IF lines = <<>> THEN <<>>
    ELSE IF LineWellFormed(lines[1])
         THEN <<ParseInt(Strip(lines[1])).v>> \o WellFormedValues(Tail(lines))
         ELSE WellFormedValues(Tail(lines))
AppendedValues == [i \in 1..Len(appended) |-> appended[i][2]]
\* WellFormedValues of every prefix of every script, computed once
WellFormedPrefix ==
    [s \in SerialScripts |->
        [n \in 0..Len(s) |-> WellFormedValues(SubSeq(s, 1, n))]]

\* a pass of the drain loop that reads a malformed line
MalformedLineRead ==
    /\ pc = "drain" /\ inbuf # <<>> /\ inbuf' = Tail(inbuf)
    /\ ~LineWellFormed(Head(inbuf))

\* C4: a malformed or empty line is skipped without side effect and without
\* ending the drain: the values appended are exactly the well-formed integer
\* lines read, in input order; a pass that reads a malformed line leaves the
\* buffer as it was and stays in the drain loop, so later lines are ingested.
C4_MalformedSkipped ==
    /\ [](variant = "serial" =>
            AppendedValues = WellFormedPrefix[script][Len(LinesRead)])
    /\ [][MalformedLineRead =>
            /\ times' = times /\ values' = values /\ appended' = appended
            /\ pc' = "drain" /\ exc' = exc]_vars

\* one drain call has read the lines "12", "oops", "34" and stored 12 and 34
C4_Witness ==
    /\ variant = "serial" /\ pc = "drain" /\ drained = 3
    /\ LinesRead = <<L12, Oops, L34>>
    /\ values = <<12, 34>> /\ Len(times) = 2

\* C5: every drain call terminates: it ingests only the lines that were
\* waiting when it was called and then returns, also when the device keeps
\* sending while it runs.
C5_DrainsOnlyWhatWasAvailable ==
    pc = "drain" => drained <= avail_at_call

\* C6: a drain call never raises to the render tick: a failing availability
\* check, a failing read and a failing decode are all caught inside the drain.
C6_DrainNeverRaises ==
    ~(variant = "serial" /\ pc = "callback_error" /\ exc = "OSError")

\* the stop signals the code acts on: plt.show() returned because the serial
\* plot window was closed, or cv2.waitKey gave 'q' in the camera loop
StopSignal == ended_by \in {"window_closed", "quit_key"}
\* the camera's plot window was closed by the user: the figure is closed
\* though close() has not been called
CameraWindowClosed == variant = "camera" /\ fig = "closed" /\ releases = 0
\* the stop signals of the claim: a closed window or the quit key, in either
\* variant
StopRequested == StopSignal \/ CameraWindowClosed

\* C7 (as claimed): a stop signal (window closed or quit key) in a running
\* run always leads to Closed, through Closing, and the step into Closed
\* makes the one and only call of the source's release.
C7_AnyStopLeadsToClosed ==
    /\ StopRequested ~> (Phase = "Closed")
    /\ [](StopRequested => Phase \in {"Closing", "Closed"})
    /\ [][(StopRequested /\ Phase' = "Closed" /\ Phase # "Closed") =>
            /\ Phase = "Closing"
            /\ releases = 0 /\ releases' = 1]_vars

\* C7 (amended): the stop signal of each variant, the serial plot window
\* closed or the quit key of the camera loop, leads to Closed, through
\* Closing, and the step into Closed makes the one and only call of the
\* source's release (serial_port.close(), cap.release()): none was made
\* before it and one has been made after it.  Closing the camera's plot
\* window is not a stop signal: the run stays Running.
C7_StopLeadsToClosed ==
    /\ StopSignal ~> (Phase = "Closed")
    /\ [](StopSignal => Phase \in {"Closing", "Closed"})
    /\ [][(StopSignal /\ Phase' = "Closed" /\ Phase # "Closed") =>
            /\ Phase = "Closing"
            /\ releases = 0 /\ releases' = 1]_vars
    /\ [][(~CameraWindowClosed /\ CameraWindowClosed') =>
            /\ Phase = "Running" /\ Phase' = "Running"
            /\ ended_by' = ended_by /\ is_running']_vars

\* a camera run that had stored and drawn samples went on after its plot
\* window was closed, was stopped with the quit key and is closed, released
\* once
C7_Witness ==
    /\ variant = "camera" /\ ended_by = "quit_key" /\ Phase = "Closed"
    /\ fig = "closed" /\ exc = "AttributeError"
    /\ releases = 1 /\ appended # <<>> /\ ticked

\* C8: once the source is opened, every end of the run has released it: no
\* run ends with the serial port or the camera still open.
C8_EndsReleased ==
    Phase = "Closed" => ~SourceOpen

\* C9: when no device is found (no port, camera not opened) the run does not
\* start: the failure is reported, no tick runs, no source is left open and
\* the buffers stay empty.
C9_NoDeviceNoRun ==
    ended_by \in {"not_found", "not_opened"} =>
        /\ Phase \in {"Closing", "Closed"}
        /\ ~ticked /\ ~is_running /\ start_time = NoTime
        /\ ~SourceOpen /\ serial_port = None
        /\ times = <<>> /\ values = <<>>
        /\ ppg_times = <<>> /\ ppg_values = <<>> /\ appended = <<>>
        /\ line_data = [x |-> <<>>, y |-> <<>>]

\* run() has returned after "No Arduino found!"
C9_Witness ==
    /\ variant = "serial" /\ ended_by = "not_found" /\ pc = "done"
    /\ serial_port = None /\ releases = 0

\* C10: the rate is computed only when the buffer holds more than 10 samples
\* (otherwise the title stays as it is), and when computed it equals
\* (count - 1) / (t_last - t_first) over the samples in the buffer (stated
\* where that quotient is defined, t_last > t_first).
C10_RateOverSpan ==
    [][title' # title =>
        LET ts == BufTimes'
        IN  /\ Len(ts) > MinRateCount
            /\ title'.rate
            /\ ts[Len(ts)] > ts[1] =>
                 title'.num * (ts[Len(ts)] - ts[1])
                   = (Len(ts) - 1) * TicksPerSecond * title'.den]_vars

\* the view as the setup left it: x = [0, window], y = the initial range of
\* the serial plot (the camera plot sets none), no rate in the title, no data
DefaultView ==
    /\ xlim = Lim(0, IF variant = "serial" THEN time_window ELSE window_size)
    /\ ylim = (IF variant = "serial" THEN Lim(0, InitialYMax * YScale) ELSE NoLim)
    /\ title = NoTitle
    /\ line_data = [x |-> <<>>, y |-> <<>>]

\* C11: a tick on an empty buffer leaves the view at the default bounds and
\* the rate unavailable: while the buffer is empty, ticks change neither the
\* x-range, the y-range nor the title.
C11_EmptyTickKeepsDefaults ==
    /\ []((ticked /\ BufTimes = <<>>) => DefaultView)
    /\ [][(ticked' /\ BufTimes' = <<>>) => viewVars' = viewVars]_vars

\* a tick has run on an empty buffer after the clock had moved on
C11_Witness ==
    /\ ticked /\ pc = "loop" /\ BufTimes = <<>> /\ BufValues = <<>>
    /\ advances = 1 /\ xlim = Lim(0, time_window) /\ ~title.rate

\* a step in which the serial drain returns and update_plot runs on
SerialPlotStep == variant = "serial" /\ pc = "drain" /\ pc' # "drain" /\ exc' # "OSError"

\* mid +/- range/1.8 over the values vals, in units of 1/YScale:
\* mid = (min + max)/2, range = max(50, max - min)
MidHalfRange(vals) ==
    LET lo == SeqMin(vals)
        hi == SeqMax(vals)
        range == Max2(MinYRange, hi - lo)
    IN  Lim((YScale \div 2) * (lo + hi) - (YScale * 10 * range) \div 18,
            (YScale \div 2) * (lo + hi) + (YScale * 10 * range) \div 18)

\* C12 (as claimed): for every non-empty buffer the serial y-bounds after a
\* tick are mid +/- range/1.8 over the values in the buffer.
C12_YBoundsEveryBuffer ==
    [][(SerialPlotStep /\ pc' = "loop" /\ values' # <<>>) =>
            ylim' = MidHalfRange(values')]_vars

\* C12 (amended): when update_plot runs on a buffer of more than 5 values
\* the y-bounds become mid +/- range/1.8 over the values in the buffer; on a
\* buffer of 5 values or fewer it leaves the y-bounds as they were.
C12_YBoundsAfterFive ==
    [][SerialPlotStep =>
         IF Len(values') > MinYCount
         THEN ylim' = MidHalfRange(values')
         ELSE ylim' = ylim]_vars

\* the buffer 100, 200, 100, 100, 100, 100 was plotted: range 100, midpoint
\* 150, bounds 150 -/+ 100/1.8
C12_Witness ==
    /\ variant = "serial" /\ pc = "loop"
    /\ values = <<100, 200, 100, 100, 100, 100>>
    /\ line_data.y = values
    /\ ylim = Lim(YScale * 150 - 1000, YScale * 150 + 1000)

\* a tick has drawn the buffer
Plotted == line_data.x # <<>>
Window == IF variant = "serial" THEN time_window ELSE window_size
Margin == IF variant = "serial" THEN SerialMargin ELSE CameraMargin

\* C13 (as claimed): after a tick on a non-empty buffer x_min is
\* max(0, x_max - window_seconds), so the visible width never exceeds
\* window_seconds.
C13_WidthWithinWindow ==
    Plotted =>
        /\ xlim.lo = Max2(0, xlim.hi - Window)
        /\ xlim.hi - xlim.lo <= Window

\* C13 (amended): after a tick on a non-empty buffer x_max = now + margin and
\* x_min = max(0, now - window_seconds), so the visible width never exceeds
\* window_seconds + margin (serial: now = elapsed wall time; camera: now =
\* the newest timestamp).
C13_WidthWithinWindowPlusMargin ==
    /\ [](Plotted =>
            /\ xlim.lo = Max2(0, (xlim.hi - Margin) - Window)
            /\ xlim.hi - xlim.lo <= Window + Margin
            /\ variant = "camera" =>
                 xlim.hi = line_data.x[Len(line_data.x)] + CameraMargin)
    /\ [][(SerialPlotStep /\ times' # <<>>) =>
            xlim'.hi = (clock - start_time) + SerialMargin]_vars

\* the serial window has scrolled: 11 s after the start it shows [1, 11.5]
C13_Witness ==
    /\ variant = "serial" /\ pc = "loop" /\ Plotted
    /\ clock - start_time = 11 * TicksPerSecond
    /\ xlim = Lim(TicksPerSecond, 11 * TicksPerSecond + SerialMargin)

\* C14: close() is idempotent: a call of close() after start() has closed in
\* its finally block, in which the capture and OpenCV do not fail, raises
\* nothing and leaves the run as the first call left it: Closed, the capture
\* released, not running, the figure and the animation, the buffers and the
\* view untouched.
C14_CloseIdempotent ==
    [][(variant = "camera" /\ Phase = "Closed" /\ exc = None
            /\ exc' # "error") =>
            /\ Phase' = "Closed"
            /\ cap' = cap /\ is_running' = is_running /\ ~SourceOpen'
            /\ exc' = exc /\ ended_by' = ended_by
            /\ start_time' = start_time /\ guiVars' = guiVars
            /\ bufVars' = bufVars /\ viewVars' = viewVars]_vars

\* the serial source has failed under the tick: the availability check raised
SerialReadFailed == variant = "serial" /\ pc = "callback_error" /\ exc = "OSError"

\* C15: a source read failure during a run moves the run to Closing and then
\* Closed: once the serial availability check or read has failed, or the
\* camera has returned no frame, the next step of the run enters Closing, and
\* Closing only goes on to Closed; the run does not go back to ticking.
C15_ReadFailureCloses ==
    [][/\ (SerialReadFailed /\ pc' # pc) => Phase' = "Closing"
       /\ ended_by' = "read_failed" => Phase' \in {"Closing", "Closed"}
       /\ Phase = "Closing" => Phase' \in {"Closing", "Closed"}]_vars

\* the height a rescale gives the y-axis for the values vals, in units of
\* 1/YScale: serial max(50, max - min)/0.9, camera max - min + 20
PolicyHeight(vals) ==
    LET spread == SeqMax(vals) - SeqMin(vals)
    IN  IF variant = "serial"
        THEN (YScale * 10 * Max2(MinYRange, spread)) \div 9
        ELSE YScale * (spread + 2 * CameraYPad)
\* the least height a rescale can give
FloorHeight ==
    IF variant = "serial" THEN (YScale * 10 * MinYRange) \div 9
    ELSE YScale * 2 * CameraYPad
\* the height the claim asks of the display for the values in the buffer
ClaimedHeight ==
    IF BufValues = <<>> THEN FloorHeight ELSE PolicyHeight(BufValues)

\* C16 (as claimed): the y-axis never collapses: in every reachable state in
\* which the plot is shown, also with a buffer of equal values, the bounds
\* satisfy y_min < y_max and their height is at least the policy's for the
\* values in the buffer (serial max(50, max - min)/0.9, camera
\* max - min + 20).
C16_PolicyHeightInEveryState ==
    fig = "open" =>
        /\ ylim.set
        /\ ylim.lo < ylim.hi
        /\ ylim.hi - ylim.lo >= ClaimedHeight

\* a step in which the camera's update_plot runs
CameraPlotStep ==
    /\ variant = "camera" /\ pc = "waitkey"
    /\ pc' \in {"waitkey", "callback_error"}
    /\ guiVars' = guiVars /\ envVars' = envVars
\* a step in which update_plot rescales the y-axis: the serial tick on more
\* than 5 values, the camera tick on a buffer that is not empty
RescaleStep ==
    \/ SerialPlotStep /\ Len(values') > MinYCount
    \/ CameraPlotStep /\ ppg_values # <<>>

\* C16 (amended): the y-axis never collapses: whenever the code has set
\* y-bounds, y_min < y_max and the height is at least the constant floor
\* (serial 50/0.9, camera 20), also for a buffer of equal values; the bounds
\* change only when a tick rescales (serial: more than 5 values, camera: a
\* buffer that is not empty), and then the height is the policy's for the
\* values in the buffer (serial max(50, max - min)/0.9, camera
\* max - min + 20).
C16_YAxisNeverCollapses ==
    /\ [](ylim.set => /\ ylim.lo < ylim.hi
                      /\ ylim.hi - ylim.lo >= FloorHeight)
    /\ [][/\ RescaleStep =>
                /\ ylim'.set
                /\ ylim'.hi - ylim'.lo = PolicyHeight(BufValues')
          /\ (ylim.set /\ ylim' # ylim) => RescaleStep]_vars

\* a flat serial buffer of more than 5 equal values has been drawn: the
\* height is 50/0.9 around the value
C16_Witness ==
    /\ variant = "serial" /\ pc = "loop"
    /\ Len(values) > MinYCount /\ SeqMin(values) = SeqMax(values)
    /\ line_data.y = values
    /\ ylim = Lim(YScale * 100 - 500, YScale * 100 + 500)

\* the four sequences of the buffers
Buffers == << times, values, ppg_times, ppg_values >>
\* what the display was last handed is the buffer as it is
ShowsBuffer == line_data = [x |-> BufTimes, y |-> BufValues]
\* the step belongs to a tick: the serial drain, the camera's update_plot
\* (which takes no frame)
InTick ==
    IF variant = "serial" THEN pc = "drain" ELSE pc = "waitkey" /\ sent' = sent

\* C17 (as claimed): in both variants acquisition happens only inside a
\* tick, the drain first and the display after it: the buffer is never
\* mutated outside a tick, and what a tick displays is the buffer with every
\* sample ingested in that tick.
C17_AcquisitionOnlyInTick ==
    [][/\ Buffers' # Buffers => InTick
       /\ line_data' # line_data => ShowsBuffer']_vars

\* C17 (amended): in the serial variant the buffer is mutated only inside a
\* tick, by the drain, before that tick touches the display; in the camera
\* variant it is mutated only by the capture loop, between ticks, one frame
\* at a time.  In both variants a step that touches the display does not
\* mutate the buffer and hands over the buffer as it then is.
C17_AcquisitionOrder ==
    [][/\ (variant = "serial" /\ Buffers' # Buffers) =>
            pc = "drain" /\ pc' = "drain" /\ viewVars' = viewVars
       /\ (variant = "camera" /\ Buffers' # Buffers) =>
            pc = "loop" /\ sent' = sent + 1 /\ viewVars' = viewVars
       /\ viewVars' # viewVars => Buffers' = Buffers /\ ShowsBuffer']_vars

\* the camera loop has stored frames since the last tick drew the buffer
C17_Witness ==
    /\ variant = "camera" /\ pc = "loop" /\ Plotted
    /\ Len(ppg_values) = Len(line_data.y) + 2
    /\ ppg_times[Len(ppg_times)] > line_data.x[Len(line_data.x)]

\* C18: whenever a tick computes the serial rate (more than 10 samples in
\* the buffer) the span t_last - t_first of the buffer is strictly positive,
\* so the tick never fails with a division by zero.
C18_SerialSpanPositive ==
    [][(SerialPlotStep /\ Len(times') > MinRateCount) =>
            /\ times'[Len(times')] - times'[1] > 0
            /\ exc' # "ZeroDivisionError"]_vars

\* sample i of the buffer is a pair that was recorded together, and the
\* pairs are kept in the order they were recorded
PairedAt(i) ==
    LET j == Len(appended) - Len(BufTimes) + i
    IN  /\ j \in 1..Len(appended)
        /\ appended[j][1] = BufTimes[i]
        /\ appended[j][2] = BufValues[i]

\* C19: the timestamps and the values of a buffer always have the same
\* length and stay paired index by index: element i of the times is the
\* timestamp recorded with element i of the values, after any mix of
\* appends, evictions and skipped lines.
C19_TimesValuesPaired ==
    /\ Len(times) = Len(values)
    /\ Len(ppg_times) = Len(ppg_values)
    /\ \A i \in 1..Len(BufValues) : PairedAt(i)

\* a tick has read a serial buffer that went through skipped lines and two
\* evictions, with the clock advanced between its samples
C19_Witness ==
    /\ variant = "serial" /\ script = SerialMixed /\ pc = "loop"
    /\ Len(appended) = max_points + 2
    /\ line_data = [x |-> times, y |-> values]
    /\ times[1] < times[Len(times)]
====
